---- MODULE Spec2Model ----
(***************************************************************************)
(* The key-value file store of src-tauri/src/storage.rs: the three tauri   *)
(* commands read_storage, write_storage and remove_storage over a model of *)
(* the filesystem (the directories that exist, the regular files and their *)
(* contents).  Strings are sequences of one-character strings, so that     *)
(* format!("{}.json", key), Path::join and the walk of a path by the       *)
(* operating system are computed, not assumed.  The path walk is the POSIX *)
(* one: components are separated by "/", empty and "." components are      *)
(* skipped, ".." goes to the parent, and every directory on the way has to *)
(* exist.                                                                  *)
(*                                                                         *)
(* Spec     : the commands run one at a time, each as one action.          *)
(* SpecConc : up to MaxCalls commands in flight, one action per filesystem *)
(*            call of a handler, interleaved.                              *)
(***************************************************************************)
EXTENDS Naturals, Sequences, FiniteSets, TLC

VARIABLES
    dirs,    \* the directories that exist: a set of paths
    files,   \* the regular files: a function from path to content
    last,    \* Spec: the call that returned last
    prev,    \* Spec: the call before it, when both succeeded
    prev2,   \* Spec: the call before that, when all three succeeded
    calls,   \* SpecConc: the calls in flight, by slot
    lastDone \* SpecConc: the slot whose call returned last (0: none)

vars == <<dirs, files, last, prev, prev2, calls, lastDone>>

---------------------------------------------------------------------------
(* Bounds *)

\* The documents written are the strings "", "1", "12", ... of length
\* 0..MaxValLen.
MaxValLen == 1
\* SpecConc: the number of commands the runtime has in flight at once.
MaxCalls == 2

---------------------------------------------------------------------------
(* Strings, keys, values *)

Digits == <<"1", "2", "3", "4", "5", "6", "7", "8", "9">>
Str(n) == SubSeq(Digits, 1, n)

Values == {Str(n) : n \in 0..MaxValLen}

KeyA == <<"a">>
KeyB == <<"b">>
KeyDotA == <<".", "/", "a">>
KeySub == <<"a", "/", "b">>
Keys == {KeyA, KeyB, KeyDotA, KeySub}

\* String::from("null")
Null == <<"n", "u", "l", "l">>

\* Result<_, String>: Ok(payload) and Err(message).  The payload of Ok(()) is
\* the empty string.
Ok(v) == [ok |-> TRUE, val |-> v]
Err(m) == [ok |-> FALSE, val |-> m]
Unit == <<>>

\* io::Error::to_string() of the errors the model produces.
NotFound == <<"No such file or directory (os error 2)">>
PermissionDenied == <<"Permission denied (os error 13)">>
StorageFull == <<"No space left on device (os error 28)">>

\* What the environment does to one call: nothing ("ok"), or it fails one of
\* the calls the handler makes: the directory resolution ("UnknownPath"), or a
\* filesystem call ("mkdir": create_dir_all, "open" and "write": the two
\* halves of fs::write, "read": read_to_string, "remove": remove_file).
ReadEnv == {"ok", "UnknownPath", "read"}
WriteEnv == {"ok", "UnknownPath", "mkdir", "open", "write"}
RemoveEnv == {"ok", "UnknownPath", "remove"}
\* tauri::Error::to_string()
ErrToString(e) == IF e = "UnknownPath" THEN <<"unknown path">> ELSE <<"error">>

---------------------------------------------------------------------------
(* Paths *)

Root == <<>>
\* The directory app_data_dir() resolves to: /u/d.  Its parent /u exists.
AppDataDir == << <<"u">>, <<"d">> >>

\* format!("{}.json", key)
FileName(key) == key \o <<".", "j", "s", "o", "n">>

\* The components of a path string, split at "/".
RECURSIVE Split(_)
Split(s) ==
    IF \A i \in 1..Len(s) : s[i] # "/"
    THEN <<s>>
    ELSE LET i == CHOOSE j \in 1..Len(s) :
                      s[j] = "/" /\ \A k \in 1..(j - 1) : s[k] # "/"
         IN  <<SubSeq(s, 1, i - 1)>> \o Split(SubSeq(s, i + 1, Len(s)))

\* PathBuf::join: an absolute argument replaces the base.
Join(base, name) ==
    IF name # <<>> /\ name[1] = "/" THEN Split(name) ELSE base \o Split(name)

Parent(p) == IF p = Root THEN Root ELSE SubSeq(p, 1, Len(p) - 1)

\* The operating system's walk of the directory part of a path: the directory
\* reached, or failure when a directory on the way does not exist.
RECURSIVE Walk(_, _, _)
Walk(ds, cur, comps) ==
    IF Len(comps) <= 1
    THEN [ok |-> TRUE, dir |-> cur]
    ELSE LET c == Head(comps)
         IN  IF c = <<>> \/ c = <<".">>
             THEN Walk(ds, cur, Tail(comps))
             ELSE IF c = <<".", ".">>
             THEN Walk(ds, Parent(cur), Tail(comps))
             ELSE IF (cur \o <<c>>) \in ds
             THEN Walk(ds, cur \o <<c>>, Tail(comps))
             ELSE [ok |-> FALSE, dir |-> cur]

\* app_data_dir.join(format!("{}.json", key)), for every key.
FilePath == [key \in Keys |-> Join(AppDataDir, FileName(key))]

\* The file a key's path names, given the directories that exist.
Locate(ds, key) ==
    LET comps == FilePath[key]
    IN  [ok |-> Walk(ds, Root, comps).ok,
         path |-> Walk(ds, Root, comps).dir \o <<comps[Len(comps)]>>]

---------------------------------------------------------------------------
(* Filesystem calls *)

EmptyFiles == [p \in {} |-> <<>>]

\* Path::exists
Exists(ds, fs, key) ==
    LET loc == Locate(ds, key) IN loc.ok /\ loc.path \in DOMAIN fs

\* fs::create_dir_all: the directory and its missing parents.
CreateDirAll(ds, dir) == ds \cup {SubSeq(dir, 1, n) : n \in 0..Len(dir)}

\* Mutant: the file is opened without being emptied.
OpenNoTruncate(fs, p) == IF p \in DOMAIN fs THEN fs ELSE (p :> <<>>) @@ fs

\* File::create, the first half of fs::write: the file is created, or emptied.
OpenTruncate(fs, p) == (p :> <<>>) @@ fs

\* write_all on a freshly opened file: the bytes go to offset 0, over what is
\* there.
WriteAt(content, v) ==
    IF Len(content) > Len(v)
    THEN v \o SubSeq(content, Len(v) + 1, Len(content))
    ELSE v

\* Mutant: the file is emptied, not removed.
RemoveFileEmpties(fs, p) == [fs EXCEPT ![p] = <<>>]

\* fs::remove_file
RemoveFile(fs, p) == [q \in DOMAIN fs \ {p} |-> fs[q]]

---------------------------------------------------------------------------
(* The commands: what each returns and what it leaves on disk *)

Outcome(res, ds, fs) == [res |-> res, dirs |-> ds, files |-> fs]

\* Mutant: an empty file is taken for a missing one.
read_storage_EmptyIsAbsent(ds, fs, key, env) ==
    IF env = "UnknownPath"
    THEN Outcome(Err(ErrToString(env)), ds, fs)
    ELSE IF ~Exists(ds, fs, key) \/ fs[Locate(ds, key).path] = <<>>
    THEN Outcome(Ok(Null), ds, fs)
    ELSE IF env = "read"
    THEN Outcome(Err(PermissionDenied), ds, fs)
    ELSE Outcome(Ok(fs[Locate(ds, key).path]), ds, fs)

\* Mutant: a missing file reads as the empty string.
read_storage_AbsentIsEmpty(ds, fs, key, env) ==
    IF env = "UnknownPath"
    THEN Outcome(Err(ErrToString(env)), ds, fs)
    ELSE IF ~Exists(ds, fs, key)
    THEN Outcome(Ok(<<>>), ds, fs)
    ELSE IF env = "read"
    THEN Outcome(Err(PermissionDenied), ds, fs)
    ELSE Outcome(Ok(fs[Locate(ds, key).path]), ds, fs)

\* Mutant: a failed resolution is answered as a missing file.
read_storage_UnresolvedIsAbsent(ds, fs, key, env) ==
    IF env = "UnknownPath" \/ ~Exists(ds, fs, key)
    THEN Outcome(Ok(Null), ds, fs)
    ELSE IF env = "read"
    THEN Outcome(Err(PermissionDenied), ds, fs)
    ELSE Outcome(Ok(fs[Locate(ds, key).path]), ds, fs)

read_storage(ds, fs, key, env) ==
    IF env = "UnknownPath"
    THEN Outcome(Err(ErrToString(env)), ds, fs)
    ELSE IF ~Exists(ds, fs, key)
    THEN Outcome(Ok(Null), ds, fs)
    ELSE IF env = "read"
    THEN Outcome(Err(PermissionDenied), ds, fs)
    ELSE Outcome(Ok(fs[Locate(ds, key).path]), ds, fs)

\* Mutant: the data directory is not created.
write_storage_NoCreateDir(ds, fs, key, value, env) ==
    IF env = "UnknownPath"
    THEN Outcome(Err(ErrToString(env)), ds, fs)
    ELSE IF env = "mkdir"
    THEN Outcome(Err(PermissionDenied), ds, fs)
    ELSE LET loc == Locate(ds, key)
         IN  IF ~loc.ok
             THEN Outcome(Err(NotFound), ds, fs)
             ELSE IF env = "open"
             THEN Outcome(Err(PermissionDenied), ds, fs)
             ELSE LET fs1 == OpenTruncate(fs, loc.path)
                  IN  IF env = "write"
                      THEN Outcome(Err(StorageFull), ds, fs1)
                      ELSE Outcome(Ok(Unit), ds,
                               [fs1 EXCEPT ![loc.path] = WriteAt(@, value)])

\* A write_all that fails ("write") leaves the file as File::create made it.
write_storage(ds, fs, key, value, env) ==
    IF env = "UnknownPath"
    THEN Outcome(Err(ErrToString(env)), ds, fs)
    ELSE IF env = "mkdir"
    THEN Outcome(Err(PermissionDenied), ds, fs)
    ELSE LET ds1 == CreateDirAll(ds, AppDataDir)
             loc == Locate(ds1, key)
         IN  IF ~loc.ok
             THEN Outcome(Err(NotFound), ds1, fs)
             ELSE IF env = "open"
             THEN Outcome(Err(PermissionDenied), ds1, fs)
             ELSE LET fs1 == OpenTruncate(fs, loc.path)
                  IN  IF env = "write"
                      THEN Outcome(Err(StorageFull), ds1, fs1)
                      ELSE Outcome(Ok(Unit), ds1,
                               [fs1 EXCEPT ![loc.path] = WriteAt(@, value)])

\* Mutant: remove_file is called without the check that the file exists.
remove_storage_Unchecked(ds, fs, key, env) ==
    IF env = "UnknownPath"
    THEN Outcome(Err(ErrToString(env)), ds, fs)
    ELSE IF ~Exists(ds, fs, key)
    THEN Outcome(Err(NotFound), ds, fs)
    ELSE IF env = "remove"
    THEN Outcome(Err(PermissionDenied), ds, fs)
    ELSE Outcome(Ok(Unit), ds, RemoveFile(fs, Locate(ds, key).path))

remove_storage(ds, fs, key, env) ==
    IF env = "UnknownPath"
    THEN Outcome(Err(ErrToString(env)), ds, fs)
    ELSE IF Exists(ds, fs, key)
    THEN IF env = "remove"
         THEN Outcome(Err(PermissionDenied), ds, fs)
         ELSE Outcome(Ok(Unit), ds, RemoveFile(fs, Locate(ds, key).path))
    ELSE Outcome(Ok(Unit), ds, fs)

---------------------------------------------------------------------------
(* Spec: one command at a time *)

\* A returned call: the command, what the environment did to it, whether the
\* data directory existed when it started, and what it returned.
Entry(op, key, value, env, hadDir, res) ==
    [op |-> op, key |-> key, val |-> value, env |-> env,
     hadDir |-> hadDir, res |-> res]

NoCall == Entry("none", <<>>, <<>>, "ok", FALSE, Ok(Unit))

NoCalls == [c \in 1..MaxCalls |->
               [pc |-> "idle", op |-> "none", key |-> <<>>, val |-> <<>>,
                fd |-> "none", res |-> Ok(Unit)]]

\* last, prev, prev2 hold the run of successful calls that ends now; a failed
\* call is remembered alone.
Push(e) ==
    /\ last' = e
    /\ prev' = IF e.res.ok /\ last.res.ok THEN last ELSE NoCall
    /\ prev2' = IF e.res.ok /\ last.res.ok THEN prev ELSE NoCall

Init ==
    /\ dirs = {Root, Parent(AppDataDir)}
    /\ files = EmptyFiles
    /\ last = NoCall
    /\ prev = NoCall
    /\ prev2 = NoCall
    /\ calls = NoCalls
    /\ lastDone = 0

\* The environment fails only a call the handler makes: read_to_string and
\* remove_file are reached when the file exists, fs::write when the path can
\* be walked.
Reached(key, env) ==
    CASE env \in {"read", "remove"} -> Exists(dirs, files, key)
      [] env \in {"open", "write"} ->
             Locate(CreateDirAll(dirs, AppDataDir), key).ok
      [] OTHER -> TRUE

ReadStorage(key, env) ==
    /\ Reached(key, env)
    /\ \E o \in {read_storage(dirs, files, key, env)} :
        /\ dirs' = o.dirs
        /\ files' = o.files
        /\ Push(Entry("read", key, Unit, env, AppDataDir \in dirs, o.res))
    /\ UNCHANGED <<calls, lastDone>>

WriteStorage(key, value, env) ==
    /\ Reached(key, env)
    /\ \E o \in {write_storage(dirs, files, key, value, env)} :
        /\ dirs' = o.dirs
        /\ files' = o.files
        /\ Push(Entry("write", key, value, env, AppDataDir \in dirs, o.res))
    /\ UNCHANGED <<calls, lastDone>>

RemoveStorage(key, env) ==
    /\ Reached(key, env)
    /\ \E o \in {remove_storage(dirs, files, key, env)} :
        /\ dirs' = o.dirs
        /\ files' = o.files
        /\ Push(Entry("remove", key, Unit, env, AppDataDir \in dirs, o.res))
    /\ UNCHANGED <<calls, lastDone>>

Next ==
    \/ \E key \in Keys, env \in ReadEnv : ReadStorage(key, env)
    \/ \E key \in Keys, value \in Values, env \in WriteEnv :
           WriteStorage(key, value, env)
    \/ \E key \in Keys, env \in RemoveEnv : RemoveStorage(key, env)

Spec == Init /\ [][Next]_vars

---------------------------------------------------------------------------
(* SpecConc: commands in flight together, one action per filesystem call *)

\* The keys and documents of the concurrent calls.
ConcKeys == {KeyA, KeyB}
ConcValues == {<<"1", "2">>, <<"3">>}

Slots == 1..MaxCalls

\* The handler returns: its call is done, and it is the last one done.
Return(c, res) ==
    /\ calls' = [calls EXCEPT ![c].pc = "done", ![c].res = res, ![c].fd = "none"]
    /\ lastDone' = c

\* The runtime dispatches a command to a free slot.  The handler resolves the
\* data directory (here always with success) and computes the file's path;
\* neither touches the disk.
Invoke(c, op, key, value) ==
    /\ calls[c].pc = "idle"
    /\ calls' = [calls EXCEPT ![c] =
                    [pc |-> IF op = "write" THEN "mkdir" ELSE "exists",
                     op |-> op, key |-> key, val |-> value,
                     fd |-> "none", res |-> Ok(Unit)]]
    /\ UNCHANGED <<dirs, files, last, prev, prev2, lastDone>>

\* file_path.exists() of read_storage and of remove_storage.
CheckExists(c) ==
    /\ calls[c].pc = "exists"
    /\ IF Exists(dirs, files, calls[c].key)
       THEN /\ calls' = [calls EXCEPT
                           ![c].pc = IF calls[c].op = "read" THEN "read" ELSE "unlink"]
            /\ UNCHANGED lastDone
       ELSE Return(c, IF calls[c].op = "read" THEN Ok(Null) ELSE Ok(Unit))
    /\ UNCHANGED <<dirs, files, last, prev, prev2>>

\* fs::read_to_string of read_storage.
ReadToString(c) ==
    /\ calls[c].pc = "read"
    /\ IF Exists(dirs, files, calls[c].key)
       THEN Return(c, Ok(files[Locate(dirs, calls[c].key).path]))
       ELSE Return(c, Err(NotFound))
    /\ UNCHANGED <<dirs, files, last, prev, prev2>>

\* A file that is removed while a writer holds it open stays with the writer
\* alone: what the writer writes from then on is in no directory.
Orphaned(cs, p) ==
    [d \in DOMAIN cs |->
        IF cs[d].fd = "open" /\ Locate(dirs, cs[d].key).path = p
        THEN [cs[d] EXCEPT !.fd = "orphan"]
        ELSE cs[d]]

\* fs::remove_file of remove_storage.
Unlink(c) ==
    /\ calls[c].pc = "unlink"
    /\ IF Exists(dirs, files, calls[c].key)
       THEN LET p == Locate(dirs, calls[c].key).path
            IN  /\ files' = RemoveFile(files, p)
                /\ calls' = [Orphaned(calls, p) EXCEPT
                                ![c].pc = "done", ![c].res = Ok(Unit)]
                /\ lastDone' = c
       ELSE /\ Return(c, Err(NotFound))
            /\ UNCHANGED files
    /\ UNCHANGED <<dirs, last, prev, prev2>>

\* fs::create_dir_all of write_storage.
MkDir(c) ==
    /\ calls[c].pc = "mkdir"
    /\ dirs' = CreateDirAll(dirs, AppDataDir)
    /\ calls' = [calls EXCEPT ![c].pc = "open"]
    /\ UNCHANGED <<files, last, prev, prev2, lastDone>>

\* File::create, the first half of fs::write.
Open(c) ==
    /\ calls[c].pc = "open"
    /\ IF Locate(dirs, calls[c].key).ok
       THEN /\ files' = OpenTruncate(files, Locate(dirs, calls[c].key).path)
            /\ calls' = [calls EXCEPT ![c].pc = "write", ![c].fd = "open"]
            /\ UNCHANGED lastDone
       ELSE /\ Return(c, Err(NotFound))
            /\ UNCHANGED files
    /\ UNCHANGED <<dirs, last, prev, prev2>>

\* write_all, the second half of fs::write.
WriteAll(c) ==
    /\ calls[c].pc = "write"
    /\ IF calls[c].fd = "open"
       THEN files' = [files EXCEPT ![Locate(dirs, calls[c].key).path] =
                         WriteAt(@, calls[c].val)]
       ELSE UNCHANGED files
    /\ Return(c, Ok(Unit))
    /\ UNCHANGED <<dirs, last, prev, prev2>>

\* The caller has every answer of the batch and starts the next one.
Collect ==
    /\ \A c \in Slots : calls[c].pc \in {"idle", "done"}
    /\ \E c \in Slots : calls[c].pc = "done"
    /\ calls' = NoCalls
    /\ lastDone' = 0
    /\ UNCHANGED <<dirs, files, last, prev, prev2>>

NextConc ==
    \/ \E c \in Slots, key \in ConcKeys : Invoke(c, "read", key, Unit)
    \/ \E c \in Slots, key \in ConcKeys, value \in ConcValues :
           Invoke(c, "write", key, value)
    \/ \E c \in Slots, key \in ConcKeys : Invoke(c, "remove", key, Unit)
    \/ \E c \in Slots : CheckExists(c)
    \/ \E c \in Slots : ReadToString(c)
    \/ \E c \in Slots : Unlink(c)
    \/ \E c \in Slots : MkDir(c)
    \/ \E c \in Slots : Open(c)
    \/ \E c \in Slots : WriteAll(c)
    \/ Collect

SpecConc == Init /\ [][NextConc]_vars

---------------------------------------------------------------------------
(* Claims *)

\* The file that backs a key, when there is one.
HasDocument(ds, fs, key) ==
    \E p \in DOMAIN fs : Locate(ds, key).ok /\ Locate(ds, key).path = p

Document(ds, fs, key) == fs[Locate(ds, key).path]

\* The step is a call of `op` on `key` that the environment lets through.
Calls(op, key) == last'.op = op /\ last'.key = key /\ last'.env = "ok"

\* The last call was a successful `op` on `key`.
Did(e, op, key) == e.op = op /\ e.key = key /\ e.res.ok

\* C1: round trip.  From any state of the store, a read_storage(k) that
\* directly follows a successful write_storage(k, v) returns Ok(v), the
\* value as written.
C1_RoundTrip ==
    [][\A k \in Keys :
          Did(last, "write", k) /\ Calls("read", k)
              => last'.res = Ok(last.val)]_vars

C1_Witness ==
    /\ Did(prev2, "write", KeyB)
    /\ Did(prev, "write", KeyA) /\ prev.val = <<"1">>
    /\ Did(last, "read", KeyA) /\ last.res = Ok(<<"1">>)

\* C2: read_storage(k) of a key with no backing file returns Ok("null"): not
\* an error and not the empty string.
C2_ReadAbsent ==
    [][\A k \in Keys :
          last'.op = "read" /\ last'.key = k /\ last'.env # "UnknownPath"
          /\ ~HasDocument(dirs, files, k)
              => last'.res = Ok(Null)]_vars

C2_Witness ==
    /\ Did(last, "read", KeyB) /\ last.res = Ok(Null)
    /\ ~HasDocument(dirs, files, KeyB)
    /\ HasDocument(dirs, files, KeyA)

\* C3: full overwrite.  After write_storage(k, v1) and write_storage(k, v2),
\* read_storage(k) returns Ok(v2); the second write leaves the set of files
\* as it was (one file backs k), k's file holding v2 and every other file
\* its content.
C3_Overwrite ==
    [][\A k \in Keys :
          /\ Did(prev, "write", k) /\ Did(last, "write", k) /\ Calls("read", k)
                 => last'.res = Ok(last.val)
          /\ Did(last, "write", k) /\ Did(last', "write", k)
                 => /\ DOMAIN files' = DOMAIN files
                    /\ HasDocument(dirs', files', k)
                    /\ Document(dirs', files', k) = last'.val
                    /\ \A p \in DOMAIN files :
                           p # Locate(dirs', k).path => files'[p] = files[p]]_vars

C3_Witness ==
    /\ Did(prev2, "write", KeyA) /\ Did(prev, "write", KeyA)
    /\ Len(prev.val) < Len(prev2.val)
    /\ Did(last, "read", KeyA) /\ last.res = Ok(prev.val)
    /\ Cardinality(DOMAIN files) = 1

\* C4: a successful remove_storage(k) leaves k with no document, as a key
\* never written, and a read_storage(k) that directly follows it returns
\* Ok("null").
C4_RemoveThenRead ==
    [][\A k \in Keys :
          /\ Did(last', "remove", k) => ~HasDocument(dirs', files', k)
          /\ Did(last, "remove", k) /\ Calls("read", k)
                 => last'.res = Ok(Null)]_vars

C4_Witness ==
    /\ Did(prev2, "write", KeyA) /\ prev2.val # <<>>
    /\ Did(prev, "remove", KeyA)
    /\ Did(last, "read", KeyA) /\ last.res = Ok(Null)

\* C5: remove_storage(k) of a key with no document returns Ok(()) and changes
\* nothing: no file, no directory (the data directory is not created), so
\* that repeating it gives the same.
C5_RemoveAbsent ==
    [][\A k \in Keys :
          last'.op = "remove" /\ last'.key = k /\ last'.env # "UnknownPath"
          /\ ~HasDocument(dirs, files, k)
              => last'.res = Ok(Unit) /\ dirs' = dirs /\ files' = files]_vars

C5_Witness ==
    /\ Did(prev, "remove", KeyA) /\ Did(last, "remove", KeyA)
    /\ ~prev.hadDir /\ ~last.hadDir
    /\ AppDataDir \notin dirs

\* C6: keys do not interfere.  For different keys k1 and k2, write_storage(k1, _)
\* and remove_storage(k1) leave what read_storage(k2) returns as it was.
C6_DistinctKeys ==
    [][\A k1, k2 \in Keys :
          k1 # k2 /\ last'.op \in {"write", "remove"} /\ last'.key = k1
              => read_storage(dirs', files', k2, "ok").res
                     = read_storage(dirs, files, k2, "ok").res]_vars

\* C7: when the resolution of the data directory fails, the command returns
\* Err with the resolution error's description, and the disk is as it was.
C7_ResolutionFails ==
    [][last'.env = "UnknownPath"
          => /\ last'.res = Err(<<"unknown path">>)
             /\ dirs' = dirs
             /\ files' = files]_vars

C7_Witness ==
    /\ last.op = "write" /\ last.env = "UnknownPath"
    /\ last.res = Err(<<"unknown path">>)
    /\ AppDataDir \notin dirs
    /\ files = EmptyFiles

\* C8: lazy creation of the data directory.  A write_storage that no call
\* fails creates a missing data directory and, the file's directory being
\* there, the file with the value, and returns Ok(()); read_storage and
\* remove_storage create no directory; a write_storage whose create_dir_all
\* fails returns Err and leaves every file as it was.
C8_LazyDirectory ==
    [][/\ last'.op = "write" /\ last'.env = "ok" /\ AppDataDir \notin dirs
           => /\ AppDataDir \in dirs'
              /\ Locate(dirs', last'.key).ok
                     => /\ last'.res = Ok(Unit)
                        /\ HasDocument(dirs', files', last'.key)
                        /\ Document(dirs', files', last'.key) = last'.val
       /\ last'.op \in {"read", "remove"} => dirs' = dirs
       /\ last'.op = "write" /\ last'.env = "mkdir"
           => ~last'.res.ok /\ files' = files /\ dirs' = dirs]_vars

C8_Witness ==
    /\ Did(last, "write", KeyA) /\ ~last.hadDir
    /\ AppDataDir \in dirs
    /\ HasDocument(dirs, files, KeyA)
    /\ Document(dirs, files, KeyA) = last.val

\* C9: last write wins.  When two write_storage calls on one key have run
\* together and both have returned, the key's document is the value of the
\* one that returned last.
C9_LastWriteWins ==
    \A c1, c2 \in Slots :
        /\ c1 # c2
        /\ {c \in Slots : calls[c].pc # "idle"} = {c1, c2}
        /\ calls[c1].pc = "done" /\ calls[c2].pc = "done"
        /\ calls[c1].op = "write" /\ calls[c2].op = "write"
        /\ calls[c1].key = calls[c2].key
        /\ calls[c1].res.ok /\ calls[c2].res.ok
        /\ lastDone = c2
        => /\ HasDocument(dirs, files, calls[c2].key)
           /\ Document(dirs, files, calls[c2].key) = calls[c2].val

\* C10: with the data directory resolved and no filesystem call failed by
\* the environment, every read_storage and remove_storage returns Ok,
\* whatever runs beside it.
C10_AbsenceIsNoError ==
    \A c \in Slots :
        calls[c].pc = "done" /\ calls[c].op \in {"read", "remove"}
            => calls[c].res.ok

====
